---- MODULE Spec2Model ----
(***************************************************************************)
(* Model of src/main.ts: a worker that, for a target page URL, fetches the *)
(* page, extracts icon candidates from its markup (and, as a fallback,     *)
(* from linked web manifests), picks the best candidate and fetches it.    *)
(*                                                                         *)
(* Three specifications:                                                   *)
(*   Spec        the request handler (fetch, extractIcons,                 *)
(*               fetchManifestIcons, findBestIcon) as a sequential process *)
(*               whose steps are the code between two awaits;              *)
(*   SpecSizes   parseSizes applied to every size descriptor of a bounded  *)
(*               length;                                                   *)
(*   SpecSelect  findBestIcon applied to every candidate list of a bounded *)
(*               length.                                                   *)
(*                                                                         *)
(* Text is modelled as follows.  A size descriptor is a sequence of        *)
(* one-character strings.  A URL reference is a record naming its shape    *)
(* (absolute, path-absolute, path-relative, unparsable) and an absolute    *)
(* URL is a record of scheme, host and path segments.  A page is a         *)
(* sequence of well-formed tags, each an element name and a sequence of    *)
(* <<attribute name, value>> pairs in source order.                        *)
(***************************************************************************)
EXTENDS Integers, Sequences, FiniteSets, TLC

VARIABLES
    \* ---- the request handler (Spec) ----
    pc,             \* position of the handler
    targetUrl,      \* url.pathname.slice(1) of the request
    baseUrl,        \* parsedUrl, once parsed
    pageStatus,     \* response.status of the page fetch, once it answered
    html,           \* the page's markup, once read
    icons,          \* the candidate array (sorted in place by findBestIcon)
    discovered,     \* the array as extractIcons returned it (main.ts:53)
    pending,        \* manifest tags still to be handled by the loop at main.ts:168
    manifestLookup, \* whether the branch at main.ts:164 was entered
    manifestLog,    \* per manifest fetch, in order: what it answered and contributed
    selectorInput,  \* the list findBestIcon was called with, if it was
    bestIcon,       \* the result of findBestIcon, if it was called
    fetchLog,       \* the outbound fetches, in issue order
    response,       \* how the handler's promise settled
    \* ---- parseSizes (SpecSizes) ----
    sizesArg, sizesResult,
    \* ---- findBestIcon (SpecSelect) ----
    selInput, selArray, selResult

handlerVars == <<pc, targetUrl, baseUrl, pageStatus, html, icons, discovered, pending,
                 manifestLookup, manifestLog, selectorInput, bestIcon,
                 fetchLog, response>>
sizesVars == <<sizesArg, sizesResult>>
selectVars == <<selInput, selArray, selResult>>
vars == <<handlerVars, sizesVars, selectVars>>

\* ------------------------------------------------------------------ bounds
\* longest size descriptor explored by SpecSizes
MaxLen == 3
\* longest candidate list explored by SpecSelect
MaxCands == 3
\* most tags on a page explored by Spec
MaxTags == 3

\* ------------------------------------------------------------ basic values
\* An optional value (string | null, an unset variable) is a sequence of
\* length at most one: NULL, or Some(v).
NULL == <<>>
Some(v) == <<v>>
Val(opt) == opt[1]

\* size descriptors, as the sequences of their characters
S64 == <<"6", "4">>
S180x180 == <<"1", "8", "0", "x", "1", "8", "0">>
S512x512 == <<"5", "1", "2", "x", "5", "1", "2">>
S192X192 == <<"1", "9", "2", "X", "1", "9", "2">>

Digits == {"0", "1", "2", "3", "4", "5", "6", "7", "8", "9"}

\* \d of the regular expressions at main.ts:226 and main.ts:235
IsDigit(c) == c \in Digits

DigitVal(c) ==
    CASE c = "0" -> 0 [] c = "1" -> 1 [] c = "2" -> 2 [] c = "3" -> 3
      [] c = "4" -> 4 [] c = "5" -> 5 [] c = "6" -> 6 [] c = "7" -> 7
      [] c = "8" -> 8 [] c = "9" -> 9

\* parseInt on a non-empty run of decimal digits
RECURSIVE parseInt(_)
parseInt(ds) ==
    IF ds = <<>> THEN 0
    ELSE 10 * parseInt(SubSeq(ds, 1, Len(ds) - 1)) + DigitVal(ds[Len(ds)])

\* ------------------------------------------------------------- parseSizes
DEFAULT_SIZE == 32

\* (faulty variant: the expression with an i flag)
IsSizeSeparatorAnyCase(c) == c \in {"x", "X"}
\* the literal "x" of /(\d+)x(\d+)/ : the expression carries no i flag
IsSizeSeparator(c) == c = "x"

\* index just past the maximal run of digits of s that starts at i (greedy \d+)
RECURSIVE DigitRunEnd(_, _)
DigitRunEnd(s, i) ==
    IF i <= Len(s) /\ IsDigit(s[i]) THEN DigitRunEnd(s, i + 1) ELSE i

NoMatch == <<>>

\* /(\d+)x(\d+)/ tried at position i: <<group 1, group 2>> or NoMatch.  The
\* greedy first group takes the whole run: a shorter one is followed by a digit.
MatchPairAt(s, i) ==
    IF i > Len(s) \/ ~IsDigit(s[i]) THEN NoMatch
    ELSE LET j == DigitRunEnd(s, i)
         IN  IF j + 1 <= Len(s) /\ IsSizeSeparator(s[j]) /\ IsDigit(s[j + 1])
             THEN <<SubSeq(s, i, j - 1), SubSeq(s, j + 1, DigitRunEnd(s, j + 1) - 1)>>
             ELSE NoMatch

\* sizes.match(/(\d+)x(\d+)/): the leftmost position that matches, from i on
RECURSIVE MatchPairFrom(_, _)
MatchPairFrom(s, i) ==
    IF i > Len(s) THEN NoMatch
    ELSE IF MatchPairAt(s, i) # NoMatch THEN MatchPairAt(s, i)
    ELSE MatchPairFrom(s, i + 1)

\* sizes.match(/(\d+)/): the leftmost maximal run of digits, from i on
RECURSIVE MatchSingleFrom(_, _)
MatchSingleFrom(s, i) ==
    IF i > Len(s) THEN NoMatch
    ELSE IF IsDigit(s[i]) THEN <<SubSeq(s, i, DigitRunEnd(s, i) - 1)>>
    ELSE MatchSingleFrom(s, i + 1)

Size(w, h) == [width |-> w, height |-> h]

parseSizes(sizes) ==
    IF sizes = NULL \/ Val(sizes) = <<>> THEN Size(DEFAULT_SIZE, DEFAULT_SIZE)
    ELSE LET match == MatchPairFrom(Val(sizes), 1)
             singleMatch == MatchSingleFrom(Val(sizes), 1)
         IN  IF match # NoMatch
             THEN Size(parseInt(match[1]), parseInt(match[2]))
             ELSE IF singleMatch # NoMatch
             THEN Size(parseInt(singleMatch[1]), parseInt(singleMatch[1]))
             ELSE Size(DEFAULT_SIZE, DEFAULT_SIZE)

\* ------------------------------------------------------------ findBestIcon
TARGET_SIZE == 100

Abs(n) == IF n < 0 THEN -n ELSE n

sizeDistance(a) == Abs(a.width - TARGET_SIZE) + Abs(a.height - TARGET_SIZE)

\* (faulty variant: the comparator without its size tie-break)
compareIconsByPriorityOnly(a, b) == a.priority - b.priority
\* the comparator given to sort: negative when a goes before b
compareIcons(a, b) ==
    IF a.priority # b.priority THEN a.priority - b.priority
    ELSE sizeDistance(a) - sizeDistance(b)

\* Array.prototype.sort is stable: an element goes after every element of the
\* sorted prefix that does not compare greater than it.
RECURSIVE InsertStable(_, _)
InsertStable(x, sorted) ==
    IF sorted = <<>> THEN <<x>>
    ELSE IF compareIcons(x, Head(sorted)) < 0 THEN <<x>> \o sorted
    ELSE <<Head(sorted)>> \o InsertStable(x, Tail(sorted))

RECURSIVE sort(_)
sort(arr) ==
    IF arr = <<>> THEN <<>>
    ELSE InsertStable(arr[Len(arr)], sort(SubSeq(arr, 1, Len(arr) - 1)))

\* icons.sort(...)[0]
findBestIcon(arr) == Head(sort(arr))

\* -------------------------------------------------------------------- URLs
\* An absolute URL: the value new URL(...).toString() stands for.
Url(scheme, host, path) ==
    [kind |-> "absolute", scheme |-> scheme, host |-> host, path |-> path]

\* References, as a page or a manifest writes them.
RefApple == [kind |-> "path-absolute", path |-> <<"apple.png">>]      \* "/apple.png"
RefFavicon == [kind |-> "path-relative", path |-> <<"favicon.ico">>]  \* "favicon.ico"
RefBoth == [kind |-> "path-absolute", path |-> <<"both.png">>]        \* "/both.png"
RefBanner == Url("https:", "cdn.example.com", <<"banner.png">>)
RefManifest == [kind |-> "path-absolute", path |-> <<"manifest.json">>]
RefIcon512 == [kind |-> "path-absolute", path |-> <<"icon-512.png">>]
RefUnparsable == [kind |-> "unparsable", text |-> "http://[bad"]
RefEmpty == [kind |-> "empty"]                                         \* ""
\* String(undefined), which new URL(undefined, base) resolves as a relative path
RefUndefined == [kind |-> "path-relative", path |-> <<"undefined">>]

\* the directory of a path: everything but its last segment
DirOf(path) == IF path = <<>> THEN <<>> ELSE SubSeq(path, 1, Len(path) - 1)

\* whether new URL(href, baseUrl) throws
UrlThrows(href) == href.kind = "unparsable"

\* new URL(href, baseUrl).toString(), for a reference that parses
Resolve(href, base) ==
    CASE href.kind = "absolute" -> href
      [] href.kind = "path-absolute" -> Url(base.scheme, base.host, href.path)
      [] href.kind = "path-relative" ->
             Url(base.scheme, base.host, DirOf(base.path) \o href.path)
      [] href.kind = "empty" -> base

\* (faulty variant: the reference handed on without resolving it)
resolveUrlRaw(href, base) == href
\* resolveUrl: the reference resolved against the page, or, when it cannot be
\* parsed, the reference itself
resolveUrl(href, base) ==
    IF UrlThrows(href) THEN href ELSE Resolve(href, base)

IsAbsoluteUrl(u) == u.kind = "absolute"

\* ----------------------------------------------------------- the request
\* url.pathname.slice(1), as its scheme (if written), host and path segments
TargetEmpty == <<>>                                          \* ""
TargetBare == <<"example.com", "dir", "page.html">>          \* "example.com/dir/page.html"
TargetHttp == <<"http:", "example.com">>                     \* "http://example.com"
TargetHttpbin == <<"httpbin.org">>                           \* "httpbin.org"
TargetBadHost == <<"exa mple">>                              \* "exa mple"
Targets == {TargetEmpty, TargetBare, TargetHttp, TargetHttpbin, TargetBadHost}

\* targetUrl.startsWith("http")
startsWithHttp(t) == Head(t) \in {"http:", "https:", "httpbin.org"}

normalizedUrl(t) == IF startsWithHttp(t) THEN t ELSE <<"https:">> \o t

ValidHosts == {"example.com", "httpbin.org"}

\* whether new URL(normalizedUrl) throws
TargetThrows(n) ==
    ~(Len(n) >= 2 /\ n[1] \in {"http:", "https:"} /\ n[2] \in ValidHosts)

\* new URL(normalizedUrl)
parsedUrl(n) == Url(n[1], n[2], SubSeq(n, 3, Len(n)))

\* ---------------------------------------------------------------- markup
Tag(elem, attrs) == [elem |-> elem, attrs |-> attrs]

AppleTag ==
    Tag("link", << <<"rel", "apple-touch-icon">>, <<"sizes", S180x180>>,
                   <<"href", RefApple>> >>)
FaviconTag == Tag("link", << <<"rel", "icon">>, <<"href", RefFavicon>> >>)
FaviconBadTag ==
    Tag("link", << <<"rel", "icon">>, <<"sizes", S64>>, <<"href", RefUnparsable>> >>)
FaviconEmptyTag == Tag("link", << <<"href", RefEmpty>>, <<"rel", "icon">> >>)
BothTag ==
    Tag("link", << <<"rel", "apple-touch-icon-precomposed">>, <<"rel", "icon">>,
                   <<"href", RefBoth>> >>)
OgTag == Tag("meta", << <<"property", "og:image">>, <<"content", RefBanner>> >>)
ManifestTag == Tag("link", << <<"rel", "manifest">>, <<"href", RefManifest>> >>)
ManifestEmptyTag == Tag("link", << <<"rel", "manifest">>, <<"href", RefEmpty>> >>)
ManifestNoHrefTag == Tag("link", << <<"rel", "manifest">> >>)
FaviconNoHrefTag == Tag("link", << <<"rel", "icon">>, <<"sizes", S64>> >>)
ShortcutTag == Tag("link", << <<"rel", "shortcut icon">>, <<"href", RefFavicon>> >>)

Tags == {AppleTag, FaviconTag, FaviconBadTag, FaviconEmptyTag, FaviconNoHrefTag,
         BothTag, OgTag, ManifestTag, ManifestEmptyTag, ManifestNoHrefTag,
         ShortcutTag}

Pages == UNION {[1..n -> Tags] : n \in 0..MaxTags}

\* values beginning with apple-touch-icon: rel=["']apple-touch-icon[^"']*["']
AppleRelValues == {"apple-touch-icon", "apple-touch-icon-precomposed"}

HasAttr(tag, name, values) ==
    \E k \in 1..Len(tag.attrs) : tag.attrs[k][1] = name /\ tag.attrs[k][2] \in values

\* /<link[^>]*rel=["']apple-touch-icon[^"']*["'][^>]*>/gi on one tag
appleIconRegex(tag) == tag.elem = "link" /\ HasAttr(tag, "rel", AppleRelValues)
\* /<link[^>]*rel=["']icon["'][^>]*>/gi on one tag
faviconRegex(tag) == tag.elem = "link" /\ HasAttr(tag, "rel", {"icon"})
\* /<meta[^>]*property=["']og:image["'][^>]*>/gi on one tag
ogImageRegex(tag) == tag.elem = "meta" /\ HasAttr(tag, "property", {"og:image"})
\* /<link[^>]*rel=["']manifest["'][^>]*>/gi on one tag
manifestRegex(tag) == tag.elem = "link" /\ HasAttr(tag, "rel", {"manifest"})

\* html.match(regex) || [] : the matching tags, in document order
RECURSIVE MatchesFrom(_, _, _)
MatchesFrom(page, i, kind) ==
    IF i > Len(page) THEN <<>>
    ELSE LET hit == CASE kind = "apple-touch-icon" -> appleIconRegex(page[i])
                      [] kind = "favicon" -> faviconRegex(page[i])
                      [] kind = "og-image" -> ogImageRegex(page[i])
                      [] kind = "manifest" -> manifestRegex(page[i])
         IN  (IF hit THEN <<page[i]>> ELSE <<>>) \o MatchesFrom(page, i + 1, kind)

Matches(page, kind) == MatchesFrom(page, 1, kind)

\* extractAttribute: the first attribute of that name, or null
RECURSIVE AttrFrom(_, _, _)
AttrFrom(attrs, k, name) ==
    IF k > Len(attrs) THEN NULL
    ELSE IF attrs[k][1] = name THEN Some(attrs[k][2])
    ELSE AttrFrom(attrs, k + 1, name)

extractAttribute(tag, attributeName) == AttrFrom(tag.attrs, 1, attributeName)

\* if (href): neither null nor the empty string
Truthy(ref) == ref # NULL /\ Val(ref) # RefEmpty

Candidate(url, size, type, priority) ==
    [url |-> url, width |-> size.width, height |-> size.height,
     type |-> type, priority |-> priority]

\* the loops at main.ts:103 and main.ts:125 over the matches from the k-th on
RECURSIVE LinkCandidates(_, _, _, _, _)
LinkCandidates(matches, k, base, type, priority) ==
    IF k > Len(matches) THEN <<>>
    ELSE LET href == extractAttribute(matches[k], "href")
             sizes == extractAttribute(matches[k], "sizes")
         IN  (IF Truthy(href)
              THEN <<Candidate(resolveUrl(Val(href), base), parseSizes(sizes),
                               type, priority)>>
              ELSE <<>>)
             \o LinkCandidates(matches, k + 1, base, type, priority)

OG_WIDTH == 1200
OG_HEIGHT == 630

\* the loop at main.ts:147
RECURSIVE OgCandidates(_, _, _)
OgCandidates(matches, k, base) ==
    IF k > Len(matches) THEN <<>>
    ELSE LET content == extractAttribute(matches[k], "content")
         IN  (IF Truthy(content)
              THEN <<Candidate(resolveUrl(Val(content), base),
                               Size(OG_WIDTH, OG_HEIGHT), "og-image", 3)>>
              ELSE <<>>)
             \o OgCandidates(matches, k + 1, base)

\* (faulty variant: the favicon scan run before the apple-touch-icon scan)
ScanMarkupFaviconFirst(page, base) ==
    LinkCandidates(Matches(page, "favicon"), 1, base, "favicon", 2)
    \o LinkCandidates(Matches(page, "apple-touch-icon"), 1, base, "apple-touch-icon", 1)
    \o OgCandidates(Matches(page, "og-image"), 1, base)
\* extractIcons up to main.ts:161: the three scans of the markup
ScanMarkup(page, base) ==
    LinkCandidates(Matches(page, "apple-touch-icon"), 1, base, "apple-touch-icon", 1)
    \o LinkCandidates(Matches(page, "favicon"), 1, base, "favicon", 2)
    \o OgCandidates(Matches(page, "og-image"), 1, base)

\* (faulty variants: og-image candidates counted too; no condition at all)
NoCandidatesAtAll(found) == Len(found) = 0
LookupAlways(found) == TRUE
\* main.ts:164: icons.filter((icon) => icon.type !== "og-image").length === 0
NoDirectIcons(found) ==
    Len(SelectSeq(found, LAMBDA icon : icon.type # "og-image")) = 0

\* -------------------------------------------------------------- manifests
ManifestIcon(src, sizes) == [src |-> src, sizes |-> sizes]

\* response.json() values
JsonNull == [json |-> "null"]
ManifestBare == [json |-> "object", icons |-> NULL]                     \* {}
ManifestOne ==
    [json |-> "object",
     icons |-> Some(<<ManifestIcon(Some(RefIcon512), Some(S512x512))>>)]
ManifestTwo ==
    [json |-> "object",
     icons |-> Some(<<ManifestIcon(NULL, NULL),
                      ManifestIcon(Some(RefUnparsable), Some(S192X192))>>)]
ManifestDocs == {JsonNull, ManifestBare, ManifestOne, ManifestTwo}

\* the loop at main.ts:194; an entry without src resolves String(undefined)
RECURSIVE ManifestCandidates(_, _, _)
ManifestCandidates(entries, k, base) ==
    IF k > Len(entries) THEN <<>>
    ELSE LET src == IF entries[k].src = NULL THEN RefUndefined ELSE Val(entries[k].src)
         IN  <<Candidate(resolveUrl(src, base), parseSizes(entries[k].sizes),
                         "manifest", 4)>>
             \o ManifestCandidates(entries, k + 1, base)

\* What a fetch can settle with: a rejection (network failure, or a URL that
\* fetch cannot parse), or a response with a status and a body.
NetworkError == [kind |-> "network-error"]
Answer(status, body) == [kind |-> "response", status |-> status, body |-> body]
\* bodies: markup, a JSON document, text that is not JSON, a stream that fails
HtmlBody(page) == [type |-> "html", page |-> page]
JsonBody(doc) == [type |-> "json", doc |-> doc]
InvalidJson == [type |-> "invalid-json"]
BrokenBody == [type |-> "broken"]
ImageBody == [type |-> "image"]

\* response.ok
ok(status) == status >= 200 /\ status <= 299

\* fetch rejects a URL it cannot parse
ManifestAnswers(url) ==
    IF ~IsAbsoluteUrl(url) THEN {NetworkError}
    ELSE {NetworkError, Answer(404, JsonBody(ManifestOne)), Answer(200, InvalidJson)}
         \cup {Answer(200, JsonBody(d)) : d \in ManifestDocs}

\* (faulty variant: response.ok not looked at)
fetchManifestIconsIgnoringStatus(answer, base) ==
    IF answer.kind = "network-error" THEN <<>>
    ELSE IF answer.body.type # "json" THEN <<>>
    ELSE IF answer.body.doc.json = "null" THEN <<>>
    ELSE IF answer.body.doc.icons = NULL THEN <<>>
    ELSE ManifestCandidates(Val(answer.body.doc.icons), 1, base)
\* fetchManifestIcons, given what its fetch settled with.  Every throw inside
\* the try (a rejected fetch, a rejected json(), a property read on null) is
\* caught at main.ts:209.
fetchManifestIcons(answer, base) ==
    IF answer.kind = "network-error" THEN <<>>
    ELSE IF ~ok(answer.status) THEN <<>>
    ELSE IF answer.body.type # "json" THEN <<>>
    ELSE IF answer.body.doc.json = "null" THEN <<>>
    ELSE IF answer.body.doc.icons = NULL THEN <<>>
    ELSE ManifestCandidates(Val(answer.body.doc.icons), 1, base)

\* ------------------------------------------------------ the request handler
PageAnswers ==
    {NetworkError, Answer(500, HtmlBody(<<OgTag>>)), Answer(404, HtmlBody(<<>>)),
     Answer(200, BrokenBody)}
    \cup {Answer(200, HtmlBody(page)) : page \in Pages}

IconAnswers(url) ==
    IF ~IsAbsoluteUrl(url) THEN {NetworkError}
    ELSE {NetworkError, Answer(200, ImageBody), Answer(404, BrokenBody)}

\* an outbound fetch, as the log keeps it
FetchOf(what, url) == [what |-> what, url |-> url]

\* How the promise returned by the handler settles.
NoResponse == [settled |-> "pending", by |-> "nobody", status |-> 0, body |-> <<>>]
Respond(status, body) ==
    [settled |-> "fulfilled", by |-> "handler", status |-> status, body |-> body]
\* the response of fetch(bestIcon.url), handed on as it is
PassThrough(answer) ==
    [settled |-> "fulfilled", by |-> "icon-server", status |-> answer.status,
     body |-> <<answer.body.type>>]
\* a rejection nothing caught
Rejection == [settled |-> "rejected", by |-> "nobody", status |-> 0, body |-> <<>>]

\* the catch block at main.ts:82
Caught == Respond(500, <<"Error">>)

\* (faulty variant: the message without the status)
FailedToFetchWithoutStatus(url, status) == Respond(502, <<"Failed to fetch", url, 0>>)
\* main.ts:46
FailedToFetch(url, status) == Respond(502, <<"Failed to fetch", url, status>>)

Settle(resp) ==
    /\ pc' = "done"
    /\ response' = resp
    /\ UNCHANGED <<icons, discovered, pending, selectorInput, bestIcon, fetchLog>>

\* main.ts:53-61, once extractIcons has returned found
Finish(found) ==
    /\ discovered' = Some(found)
    /\ pending' = <<>>
    /\ IF Len(found) = 0
       THEN /\ response' = Respond(404, <<"No icons found">>)
            /\ pc' = "done"
            /\ icons' = found
            /\ UNCHANGED <<selectorInput, bestIcon, fetchLog>>
       ELSE /\ selectorInput' = Some(found)
            /\ bestIcon' = Some(findBestIcon(found))
            /\ icons' = sort(found)
            /\ fetchLog' = Append(fetchLog, FetchOf("icon", findBestIcon(found).url))
            /\ pc' = "awaitIcon"
            /\ UNCHANGED response

\* (faulty variant: href tested against null only, so "" counts as given)
RECURSIVE SkipOnlyMissingHref(_)
SkipOnlyMissingHref(tags) ==
    IF tags = <<>> THEN <<>>
    ELSE IF extractAttribute(Head(tags), "href") # NULL THEN tags
    ELSE SkipOnlyMissingHref(Tail(tags))
\* the manifest tags from the first one whose href passes if (href) on
RECURSIVE SkipWithoutHref(_)
SkipWithoutHref(tags) ==
    IF tags = <<>> THEN <<>>
    ELSE IF Truthy(extractAttribute(Head(tags), "href")) THEN tags
    ELSE SkipWithoutHref(Tail(tags))

manifestUrl(tag) == resolveUrl(Val(extractAttribute(tag, "href")), Val(baseUrl))

\* the loop at main.ts:168 from the tags left, up to its next await; when no
\* tag is left extractIcons returns and the handler goes on
Continue(found, tags) ==
    LET rest == SkipWithoutHref(tags)
    IN  IF rest # <<>>
        THEN /\ pc' = "awaitManifest"
             /\ icons' = found
             /\ pending' = rest
             /\ fetchLog' = Append(fetchLog, FetchOf("manifest", manifestUrl(Head(rest))))
             /\ UNCHANGED <<discovered, selectorInput, bestIcon, response>>
        ELSE Finish(found)

Init ==
    /\ pc = "start"
    /\ targetUrl \in Targets
    /\ baseUrl = NULL
    /\ pageStatus = NULL
    /\ html = NULL
    /\ icons = <<>>
    /\ discovered = NULL
    /\ pending = <<>>
    /\ manifestLookup = FALSE
    /\ manifestLog = <<>>
    /\ selectorInput = NULL
    /\ bestIcon = NULL
    /\ fetchLog = <<>>
    /\ response = NoResponse
    /\ sizesArg = NULL /\ sizesResult = NULL
    /\ selInput = <<>> /\ selArray = <<>> /\ selResult = NULL

\* main.ts:20-43: the handler up to its first await
HandleRequest ==
    /\ pc = "start"
    /\ IF targetUrl = <<>>
       THEN /\ Settle(Respond(400, <<"Usage: /{url-to-fetch}">>))
            /\ UNCHANGED baseUrl
       ELSE IF TargetThrows(normalizedUrl(targetUrl))
       THEN /\ Settle(Caught)
            /\ UNCHANGED baseUrl
       ELSE /\ baseUrl' = Some(parsedUrl(normalizedUrl(targetUrl)))
            /\ fetchLog' = <<FetchOf("page", parsedUrl(normalizedUrl(targetUrl)))>>
            /\ pc' = "awaitPage"
            /\ UNCHANGED <<icons, discovered, pending, selectorInput, bestIcon, response>>
    /\ UNCHANGED <<targetUrl, pageStatus, html, manifestLookup, manifestLog,
                   sizesVars, selectVars>>

\* main.ts:45-61 with extractIcons up to its first await: the page fetch settles
PageResponds ==
    /\ pc = "awaitPage"
    /\ \E answer \in PageAnswers :
         IF answer.kind = "network-error"
         THEN /\ Settle(Caught)
              /\ UNCHANGED <<pageStatus, html, manifestLookup>>
         ELSE IF ~ok(answer.status)
         THEN /\ pageStatus' = Some(answer.status)
              /\ Settle(FailedToFetch(Val(baseUrl), answer.status))
              /\ UNCHANGED <<html, manifestLookup>>
         ELSE IF answer.body.type # "html"
         THEN /\ pageStatus' = Some(answer.status)
              /\ Settle(Caught)
              /\ UNCHANGED <<html, manifestLookup>>
         ELSE LET page == answer.body.page
                  found == ScanMarkup(page, Val(baseUrl))
              IN  /\ pageStatus' = Some(answer.status)
                  /\ html' = Some(page)
                  /\ manifestLookup' = NoDirectIcons(found)
                  /\ Continue(found, IF NoDirectIcons(found)
                                     THEN Matches(page, "manifest") ELSE <<>>)
    /\ UNCHANGED <<targetUrl, baseUrl, manifestLog, sizesVars, selectVars>>

\* main.ts:187-211 and the loop at main.ts:168 going on: a manifest fetch settles
ManifestResponds ==
    /\ pc = "awaitManifest"
    /\ \E answer \in ManifestAnswers(manifestUrl(Head(pending))) :
         LET got == fetchManifestIcons(answer, Val(baseUrl))
         IN  /\ manifestLog' = Append(manifestLog, [answer |-> answer, got |-> got])
             /\ Continue(icons \o got, Tail(pending))
    /\ UNCHANGED <<targetUrl, baseUrl, pageStatus, html, manifestLookup,
                   sizesVars, selectVars>>

\* main.ts:61: return fetch(bestIcon.url), not awaited inside the try, so a
\* rejection settles the handler's promise without passing the catch block
IconResponds ==
    /\ pc = "awaitIcon"
    /\ \E answer \in IconAnswers(Val(bestIcon).url) :
         IF answer.kind = "network-error"
         THEN Settle(Rejection)
         ELSE Settle(PassThrough(answer))
    /\ UNCHANGED <<targetUrl, baseUrl, pageStatus, html, manifestLookup, manifestLog,
                   sizesVars, selectVars>>

Next == HandleRequest \/ PageResponds \/ ManifestResponds \/ IconResponds

Spec == Init /\ [][Next]_vars

\* ------------------------------------------------- parseSizes on its own
SizeChars == {"0", "1", "6", "x", "X", "p"}

Descriptors == UNION {[1..n -> SizeChars] : n \in 0..MaxLen}

HandlerIdle ==
    /\ pc = "idle" /\ targetUrl = <<>> /\ baseUrl = NULL /\ html = NULL
    /\ pageStatus = NULL
    /\ icons = <<>> /\ discovered = NULL /\ pending = <<>>
    /\ manifestLookup = FALSE /\ manifestLog = <<>> /\ selectorInput = NULL
    /\ bestIcon = NULL /\ fetchLog = <<>> /\ response = NoResponse

InitSizes ==
    /\ HandlerIdle
    /\ sizesArg \in {NULL} \cup {Some(d) : d \in Descriptors}
    /\ sizesResult = NULL
    /\ selInput = <<>> /\ selArray = <<>> /\ selResult = NULL

ParseSizesCall ==
    /\ sizesResult = NULL
    /\ sizesResult' = Some(parseSizes(sizesArg))
    /\ UNCHANGED <<sizesArg, handlerVars, selectVars>>

NextSizes == ParseSizesCall

SpecSizes == InitSizes /\ [][NextSizes]_vars

\* ----------------------------------------------- findBestIcon on its own
SampleUrl(name) == Url("https:", "example.com", <<name>>)

SampleCandidates ==
    {Candidate(SampleUrl("a180.png"), Size(180, 180), "apple-touch-icon", 1),
     Candidate(SampleUrl("a32.png"), Size(32, 32), "apple-touch-icon", 1),
     Candidate(SampleUrl("a168.png"), Size(168, 168), "apple-touch-icon", 1),
     Candidate(SampleUrl("f32.ico"), Size(32, 32), "favicon", 2),
     Candidate(SampleUrl("f96.png"), Size(96, 96), "favicon", 2),
     Candidate(SampleUrl("og.png"), Size(OG_WIDTH, OG_HEIGHT), "og-image", 3),
     Candidate(SampleUrl("m512.png"), Size(512, 512), "manifest", 4),
     Candidate(SampleUrl("m100.png"), Size(100, 100), "manifest", 4)}

InitSelect ==
    /\ HandlerIdle
    /\ sizesArg = NULL /\ sizesResult = NULL
    /\ selInput \in UNION {[1..n -> SampleCandidates] : n \in 1..MaxCands}
    /\ selArray = selInput
    /\ selResult = NULL

\* findBestIcon(selInput): the array is sorted in place, its first element returned
FindBestIconCall ==
    /\ selResult = NULL
    /\ selResult' = Some(findBestIcon(selArray))
    /\ selArray' = sort(selArray)
    /\ UNCHANGED <<selInput, handlerVars, sizesVars>>

NextSelect == FindBestIconCall

SpecSelect == InitSelect /\ [][NextSelect]_vars

\* ================================================================== claims

\* ---- C1 ----
C1_Distance(c) ==
    (IF c.width < 100 THEN 100 - c.width ELSE c.width - 100)
    + (IF c.height < 100 THEN 100 - c.height ELSE c.height - 100)

C1_MinPriority(list) ==
    CHOOSE p \in {list[k].priority : k \in 1..Len(list)} :
        \A k \in 1..Len(list) : p <= list[k].priority

C1_MinDistance(list) ==
    CHOOSE d \in {C1_Distance(list[k]) :
                      k \in {i \in 1..Len(list) :
                                list[i].priority = C1_MinPriority(list)}} :
        \A k \in 1..Len(list) :
            list[k].priority = C1_MinPriority(list) => d <= C1_Distance(list[k])

C1_IsBest(list, k) ==
    /\ list[k].priority = C1_MinPriority(list)
    /\ C1_Distance(list[k]) = C1_MinDistance(list)

\* C1: for every non-empty candidate list, findBestIcon returns a candidate of
\* the least priority in the list; among those, one of the least distance
\* |width-100| + |height-100|; and among those, the one that comes first in the
\* list as it was given.
C1_BestIsFirstMinimal ==
    selResult # NULL =>
        \E k \in 1..Len(selInput) :
            /\ C1_IsBest(selInput, k)
            /\ \A j \in 1..(k - 1) : ~C1_IsBest(selInput, j)
            /\ Val(selResult) = selInput[k]

\* a list whose first element is not the best and whose two best elements tie
\* on priority and distance but differ: the earlier of the two is returned
C1_Witness ==
    /\ selResult # NULL
    /\ Len(selInput) = 3
    /\ ~C1_IsBest(selInput, 1)
    /\ C1_IsBest(selInput, 2)
    /\ C1_IsBest(selInput, 3)
    /\ selInput[2] # selInput[3]
    /\ Val(selResult) = selInput[2]

\* ---- C6 ----
C6_AllDigits(s, i, j) == i <= j /\ \A k \in i..j : s[k] \in Digits

\* s[i..j] is a maximal run of digits to the right
C6_RunTo(s, i, j) ==
    C6_AllDigits(s, i, j) /\ (j = Len(s) \/ s[j + 1] \notin Digits)

\* <digits><separator><digits> occurs starting at position i
C6_PairStartsAt(s, i, seps) ==
    \E j \in i..Len(s) :
        /\ C6_AllDigits(s, i, j)
        /\ j + 2 <= Len(s)
        /\ s[j + 1] \in seps
        /\ s[j + 2] \in Digits

C6_Least(set) == CHOOSE i \in set : \A j \in set : i <= j

\* the rules of the size parser, in order, for a given set of separators
C6_Rule(arg, seps) ==
    IF arg = NULL \/ Val(arg) = <<>> THEN [width |-> 32, height |-> 32]
    ELSE LET s == Val(arg)
             pairs == {i \in 1..Len(s) : C6_PairStartsAt(s, i, seps)}
             runs == {i \in 1..Len(s) : s[i] \in Digits}
         IN  IF pairs # {}
             THEN LET i == C6_Least(pairs)
                      j == CHOOSE j \in i..Len(s) : C6_RunTo(s, i, j)
                      k == CHOOSE k \in (j + 2)..Len(s) : C6_RunTo(s, j + 2, k)
                  IN  [width |-> parseInt(SubSeq(s, i, j)),
                       height |-> parseInt(SubSeq(s, j + 2, k))]
             ELSE IF runs # {}
             THEN LET i == C6_Least(runs)
                      j == CHOOSE j \in i..Len(s) : C6_RunTo(s, i, j)
                  IN  [width |-> parseInt(SubSeq(s, i, j)),
                       height |-> parseInt(SubSeq(s, i, j))]
             ELSE [width |-> 32, height |-> 32]

\* C6 as stated: parseSizes follows the rules with the "x" of the
\* <digits>x<digits> pattern matched case-insensitively.
C6_AsClaimed ==
    sizesResult # NULL => Val(sizesResult) = C6_Rule(sizesArg, {"x", "X"})

\* C6, amended: parseSizes returns the result of the first applicable rule:
\* absent or empty gives (32,32); a descriptor containing <digits>x<digits>
\* with a lower-case "x" gives the two integers of the first occurrence;
\* otherwise a descriptor containing a run of digits gives (n,n) for the first
\* run n (so "1X6" gives (1,1)); otherwise (32,32).
C6_LowerCaseOnly ==
    sizesResult # NULL => Val(sizesResult) = C6_Rule(sizesArg, {"x"})

\* an upper-case "X" between digits has been parsed: the first run decides
C6_Witness ==
    /\ sizesArg = Some(<<"1", "X", "6">>)
    /\ sizesResult = Some([width |-> 1, height |-> 1])

\* ---- shared by the claims about the handler ----
DirectTypes == {"apple-touch-icon", "favicon"}

TypesIn(list) == {list[k].type : k \in 1..Len(list)}

ManifestFetches == SelectSeq(fetchLog, LAMBDA f : f.what = "manifest")

\* a manifest fetch that did not deliver a manifest: a rejection, a status
\* outside 200..299, a body that is no JSON, or JSON that is no object
FailedManifest(answer) ==
    \/ answer.kind = "network-error"
    \/ /\ answer.kind = "response"
       /\ \/ answer.status < 200
          \/ answer.status > 299
          \/ answer.body.type # "json"
          \/ /\ answer.body.type = "json"
             /\ answer.body.doc.json = "null"

RECURSIVE Contributed(_)
Contributed(log) ==
    IF log = <<>> THEN <<>> ELSE Head(log).got \o Contributed(Tail(log))

\* ---- C2 ----
C2_FetchableManifestTag ==
    \E i \in 1..Len(Val(html)) :
        LET tag == Val(html)[i]
        IN  /\ tag.elem = "link"
            /\ \E k \in 1..Len(tag.attrs) : tag.attrs[k] = <<"rel", "manifest">>
            /\ \E k \in 1..Len(tag.attrs) :
                   tag.attrs[k][1] = "href" /\ tag.attrs[k][2] # RefEmpty

\* C2: once the page has been scanned, the manifest branch has been entered if
\* and only if the candidates hold no apple-touch-icon and no favicon (og-image
\* candidates do not count), and a manifest has been fetched if and only if,
\* besides, the page has a manifest link to fetch.
C2_ManifestOnlyWithoutDirectIcons ==
    html # NULL =>
        /\ manifestLookup <=> (TypesIn(icons) \cap DirectTypes = {})
        /\ (ManifestFetches # <<>>) <=>
               (TypesIn(icons) \cap DirectTypes = {} /\ C2_FetchableManifestTag)

\* a page that yielded an og-image candidate and nothing else has had its
\* manifest fetched
C2_Witness ==
    /\ html # NULL
    /\ "og-image" \in TypesIn(icons)
    /\ manifestLookup
    /\ ManifestFetches # <<>>

\* ---- C3 ----
\* C3: a manifest fetch that fails contributes no candidate; the candidates
\* are always those of the markup followed by what the manifests fetched so
\* far contributed, so a failure drops none; once the page has been read the
\* handler never answers with the internal error; and when the markup gave no
\* candidate and every manifest failed the request ends with 404 No icons found.
C3_ManifestFailureIsAbsorbed ==
    /\ \A k \in 1..Len(manifestLog) :
           FailedManifest(manifestLog[k].answer) => manifestLog[k].got = <<>>
    /\ html # NULL =>
           /\ (IF discovered # NULL THEN Val(discovered) ELSE icons)
                  = ScanMarkup(Val(html), Val(baseUrl)) \o Contributed(manifestLog)
           /\ response.status # 500
    /\ ( /\ pc = "done"
         /\ html # NULL
         /\ TypesIn(icons) \cap {"apple-touch-icon", "favicon", "og-image"} = {}
         /\ \A k \in 1..Len(manifestLog) : FailedManifest(manifestLog[k].answer) )
       => /\ response.settled = "fulfilled"
          /\ response.by = "handler"
          /\ response.status = 404
          /\ response.body = <<"No icons found">>

\* one manifest failed, another delivered candidates, and selection took place
C3_Witness ==
    /\ bestIcon # NULL
    /\ \E k \in 1..Len(manifestLog) : FailedManifest(manifestLog[k].answer)
    /\ \E k \in 1..Len(manifestLog) : manifestLog[k].got # <<>>

\* ---- C4 ----
\* C4: every request ends with a response: the selected icon's bytes or a
\* failure description; no failure leaves the handler as a rejection.
C4_AsClaimed == pc = "done" => response.settled = "fulfilled"

\* ---- C5 ----
\* C5: an empty target path ends with 400 and no fetch; a page answering with
\* a non-success status s ends with 502 and a message naming the URL fetched
\* and s, with nothing extracted, nothing selected and no other fetch; a page
\* read with no candidate found ends with 404, which no other case produces;
\* and findBestIcon is never called with an empty list.
C5_OutcomesInOrder ==
    /\ (targetUrl = <<>> /\ pc = "done") =>
           /\ response.by = "handler" /\ response.status = 400
           /\ fetchLog = <<>>
    /\ (pageStatus # NULL /\ (Val(pageStatus) < 200 \/ Val(pageStatus) > 299)) =>
           /\ pc = "done"
           /\ response.by = "handler" /\ response.status = 502
           /\ response.body = <<"Failed to fetch", Val(baseUrl), Val(pageStatus)>>
           /\ fetchLog = <<[what |-> "page", url |-> Val(baseUrl)]>>
           /\ html = NULL /\ discovered = NULL /\ selectorInput = NULL
    /\ (discovered # NULL /\ Val(discovered) = <<>>) =>
           /\ pc = "done"
           /\ response.by = "handler" /\ response.status = 404
           /\ selectorInput = NULL
           /\ \A k \in 1..Len(fetchLog) : fetchLog[k].what # "icon"
    /\ (response.by = "handler" /\ response.status = 404) =>
           (pageStatus # NULL /\ Val(pageStatus) = 200 /\ discovered = Some(<<>>))
    /\ selectorInput # NULL => Val(selectorInput) # <<>>

\* the page answered 500
C5_Witness ==
    /\ pageStatus = Some(500)
    /\ response.status = 502
    /\ Len(fetchLog) = 1

\* ---- C7 ----
C7_Tier(type) ==
    CASE type = "apple-touch-icon" -> 1
      [] type = "favicon" -> 2
      [] type = "og-image" -> 3
      [] type = "manifest" -> 4

\* the references the page and the manifests fetched so far have supplied
C7_Supplied(ref) ==
    \/ /\ html # NULL
       /\ \E i \in 1..Len(Val(html)) : \E k \in 1..Len(Val(html)[i].attrs) :
              /\ Val(html)[i].attrs[k][1] \in {"href", "content"}
              /\ Val(html)[i].attrs[k][2] = ref
    \/ \E m \in 1..Len(manifestLog) :
           LET a == manifestLog[m].answer
           IN  /\ a.kind = "response"
               /\ a.body.type = "json"
               /\ a.body.doc.json = "object"
               /\ a.body.doc.icons # NULL
               /\ \E e \in 1..Len(Val(a.body.doc.icons)) :
                      Val(a.body.doc.icons)[e].src = Some(ref)

C7_WellFormed(c) ==
    /\ c.width \in Nat
    /\ c.height \in Nat
    /\ c.priority = C7_Tier(c.type)

\* C7 as stated: every candidate of the working list has an absolute url,
\* non-negative integer width and height, and the priority of its type.
C7_AsClaimed ==
    \A k \in 1..Len(icons) :
        /\ icons[k].url.kind = "absolute"
        /\ C7_WellFormed(icons[k])

\* C7, amended: every candidate of the working list has non-negative integer
\* width and height and the priority of its type, and its url is absolute
\* unless the reference it comes from cannot be parsed, in which case the url
\* is that reference as the page or manifest wrote it.
C7_AbsoluteOrRawReference ==
    \A k \in 1..Len(icons) :
        /\ C7_WellFormed(icons[k])
        /\ \/ icons[k].url.kind = "absolute"
           \/ /\ icons[k].url.kind = "unparsable"
              /\ C7_Supplied(icons[k].url)

\* the working list holds a relative reference resolved against the page and
\* an unparsable one kept as written
C7_Witness ==
    /\ \E k \in 1..Len(icons) : icons[k].url.kind = "unparsable"
    /\ \E k \in 1..Len(icons) :
           icons[k].url = [kind |-> "absolute", scheme |-> "https:",
                           host |-> "example.com", path |-> <<"dir", "favicon.ico">>]

\* ---- C8 ----
C8_ScanKinds == {"apple-touch-icon", "favicon", "og-image"}

C8_RefName(kind) == IF kind = "og-image" THEN "content" ELSE "href"

C8_MatchedBy(tag, kind) ==
    CASE kind = "apple-touch-icon" -> appleIconRegex(tag)
      [] kind = "favicon" -> faviconRegex(tag)
      [] kind = "og-image" -> ogImageRegex(tag)

C8_HasRef(tag, kind) ==
    \E k \in 1..Len(tag.attrs) : tag.attrs[k][1] = C8_RefName(kind)

C8_HasNonEmptyRef(tag, kind) ==
    /\ C8_HasRef(tag, kind)
    /\ extractAttribute(tag, C8_RefName(kind)) # Some(RefEmpty)

\* the groups come in tier order: priorities never decrease along the list
C8_TierOrder(list) ==
    \A i, j \in 1..Len(list) : i < j => list[i].priority <= list[j].priority

C8_OfType(list, kind) == SelectSeq(list, LAMBDA c : c.type = kind)

\* the url of the candidate each tag gives to the scan of that kind, for the
\* tags of the page from the i-th on that the scan matches and that carry a
\* non-empty reference
RECURSIVE C8_UrlsFrom(_, _, _)
C8_UrlsFrom(page, i, kind) ==
    IF i > Len(page) THEN <<>>
    ELSE (IF C8_MatchedBy(page[i], kind) /\ C8_HasNonEmptyRef(page[i], kind)
          THEN <<resolveUrl(Val(extractAttribute(page[i], C8_RefName(kind))),
                            Val(baseUrl))>>
          ELSE <<>>)
         \o C8_UrlsFrom(page, i + 1, kind)

C8_Urls(list) == [k \in 1..Len(list) |-> list[k].url]

\* C8 as stated: the list extractIcons returns is in tier order, holds for
\* each scan one candidate per tag the scan matches that has its reference
\* attribute, and no tag gives a candidate to two scans.
C8_AsClaimed ==
    discovered # NULL =>
        LET list == Val(discovered)
            page == Val(html)
        IN  /\ C8_TierOrder(list)
            /\ \A kind \in C8_ScanKinds :
                   Len(C8_OfType(list, kind)) =
                       Cardinality({i \in 1..Len(page) :
                                       C8_MatchedBy(page[i], kind)
                                       /\ C8_HasRef(page[i], kind)})
            /\ Len(SelectSeq(list, LAMBDA c : c.type \in C8_ScanKinds)) =
                   Cardinality({i \in 1..Len(page) :
                                   \E kind \in C8_ScanKinds :
                                       C8_MatchedBy(page[i], kind)
                                       /\ C8_HasRef(page[i], kind)})

\* C8, amended: the list extractIcons returns is the apple-touch-icon
\* candidates, then the favicon candidates, then the og-image candidates, then
\* what the manifests contributed; each markup group holds, in document order,
\* one candidate per tag its scan matches whose reference attribute is present
\* and not empty (a tag that two scans match gives a candidate to each).
C8_GroupsInTierAndDocumentOrder ==
    discovered # NULL =>
        LET list == Val(discovered)
            page == Val(html)
        IN  /\ C8_TierOrder(list)
            /\ \A kind \in C8_ScanKinds :
                   C8_Urls(C8_OfType(list, kind)) = C8_UrlsFrom(page, 1, kind)
            /\ C8_OfType(list, "manifest") = Contributed(manifestLog)

\* a page of one apple-touch-icon tag, one favicon tag and one og:image tag,
\* written in another order, has given three candidates of priorities 1, 2, 3
C8_Witness ==
    /\ discovered # NULL
    /\ Val(html) = <<OgTag, FaviconTag, AppleTag>>
    /\ Len(Val(discovered)) = 3
    /\ Val(discovered)[1].priority = 1 /\ Val(discovered)[1].type = "apple-touch-icon"
    /\ Val(discovered)[2].priority = 2 /\ Val(discovered)[2].type = "favicon"
    /\ Val(discovered)[3].priority = 3 /\ Val(discovered)[3].type = "og-image"

\* ---- C9 ----
C9_Kinds == [k \in 1..Len(fetchLog) |-> fetchLog[k].what]

C9_Count(what) == Len(SelectSeq(fetchLog, LAMBDA f : f.what = what))

C9_IsManifestLink(tag) ==
    tag.elem = "link" /\ \E k \in 1..Len(tag.attrs) : tag.attrs[k] = <<"rel", "manifest">>

\* the manifest link tags of the page that carry an href attribute
C9_LinksWithHref ==
    SelectSeq(Val(html), LAMBDA tag :
        C9_IsManifestLink(tag) /\ extractAttribute(tag, "href") # NULL)

\* those whose href is not empty
C9_LinksWithNonEmptyHref ==
    SelectSeq(Val(html), LAMBDA tag :
        C9_IsManifestLink(tag) /\ extractAttribute(tag, "href") \notin {NULL, Some(RefEmpty)})

\* the fetches are sequential and none is repeated: the page first and once,
\* then manifests, each answered before the next is issued, then at most one
\* icon fetch, last, for the icon selected from a non-empty list; a failed
\* page fetch is followed by no fetch
C9_Sequential ==
    /\ pc # "start" /\ fetchLog # <<>> => fetchLog[1].what = "page"
    /\ C9_Count("page") <= 1
    /\ (pc \in {"awaitPage", "awaitManifest", "awaitIcon"}) => C9_Count("page") = 1
    /\ C9_Count("icon") <= 1
    /\ \A i, j \in 1..Len(fetchLog) :
           i < j => /\ fetchLog[j].what # "page"
                    /\ fetchLog[i].what # "icon"
    /\ C9_Count("manifest") = Len(manifestLog) + (IF pc = "awaitManifest" THEN 1 ELSE 0)
    /\ C9_Count("manifest") > 0 =>
           (html # NULL /\ pageStatus # NULL /\ Val(pageStatus) \in 200..299)
    /\ C9_Count("icon") = 1 =>
           /\ selectorInput # NULL /\ Val(selectorInput) # <<>>
           /\ bestIcon # NULL
           /\ fetchLog[Len(fetchLog)] = [what |-> "icon", url |-> Val(bestIcon).url]
    /\ (pc = "done" /\ html = NULL) => Len(fetchLog) <= 1

\* the manifest fetches made once extractIcons has returned: one per tag of
\* links, in tag order
C9_OnePerLink(links) ==
    discovered # NULL =>
        LET expected == IF manifestLookup THEN links ELSE <<>>
        IN  /\ Len(ManifestFetches) = Len(expected)
            /\ \A k \in 1..Len(ManifestFetches) :
                   ManifestFetches[k].url =
                       resolveUrl(Val(extractAttribute(expected[k], "href")), Val(baseUrl))

\* C9 as stated: sequential fetches without retries, with one manifest fetch
\* per manifest link tag that has an href.
C9_AsClaimed == C9_Sequential /\ C9_OnePerLink(C9_LinksWithHref)

\* C9, amended: sequential fetches without retries, with one manifest fetch
\* per manifest link tag whose href is present and not empty.
C9_SequentialOncePerNonEmptyHref ==
    C9_Sequential /\ C9_OnePerLink(C9_LinksWithNonEmptyHref)

\* the page, two manifests and the selected icon have been fetched, in that order
C9_Witness ==
    /\ pc = "done"
    /\ C9_Kinds = <<"page", "manifest", "manifest", "icon">>
    /\ Len(manifestLog) = 2

\* ---- C10 ----
\* C10: manifest candidates never stand beside apple-touch-icon or favicon
\* candidates; the icon chosen is a manifest icon only if the markup gave no
\* candidate at all; and when an og-image candidate stands beside manifest
\* candidates the og-image, 1200x630, is chosen.
C10_ManifestNeverBesideDirectIcons ==
    /\ "manifest" \in TypesIn(icons) => TypesIn(icons) \cap DirectTypes = {}
    /\ discovered # NULL =>
           ("manifest" \in TypesIn(Val(discovered))
               => TypesIn(Val(discovered)) \cap DirectTypes = {})
    /\ (bestIcon # NULL /\ Val(bestIcon).type = "manifest") =>
           TypesIn(Val(discovered)) = {"manifest"}
    /\ (bestIcon # NULL /\ {"og-image", "manifest"} \subseteq TypesIn(Val(discovered))) =>
           /\ Val(bestIcon).type = "og-image"
           /\ Val(bestIcon).width = 1200
           /\ Val(bestIcon).height = 630

\* an og-image was chosen over a manifest icon of 512x512
C10_Witness ==
    /\ bestIcon # NULL
    /\ Val(bestIcon).type = "og-image"
    /\ \E k \in 1..Len(icons) :
           icons[k].type = "manifest" /\ icons[k].width = 512 /\ icons[k].height = 512

====
